---- MODULE Spec2Model ----
(***************************************************************************)
(* Model of scripts/samples/generate-whatsapp-dataset.py: the synthetic    *)
(* WhatsApp dataset generator (row builder, CSV writer, patient-bundle     *)
(* writer and the entry point that sequences them).                        *)
(*                                                                         *)
(* Python strings are TLA+ strings; a CSV row is the 4-tuple               *)
(* <<date, nik, name, phone>> the code appends.  Python integers are       *)
(* unbounded, the NIK bases exceed 32 bits, so base + idx is computed on   *)
(* two decimal limbs of eight digits each.  valid_ratio is a rational      *)
(* num/den (the float product records * valid_ratio is taken exactly).     *)
(* The Mersenne Twister behind random.choice is abstracted to a            *)
(* deterministic generator whose output depends only on the seed and on    *)
(* the number of draws made since seeding.                                 *)
(***************************************************************************)
EXTENDS Integers, Sequences, FiniteSets, TLC

VARIABLES pc, argv, args, rng, rows, fs, stdout, trace, prev

vars == <<pc, argv, args, rng, rows, fs, stdout, trace, prev>>

(***************************************************************************)
(* Bounds of the model.                                                    *)
(***************************************************************************)
MaxRecords == 7

RecordCounts == (0 - 1) .. MaxRecords

Modes == {"valid", "invalid", "mixed", "uniform"}

\* --valid-ratio values: -1/2, 0, 1/3, 1/2, 1, 3/2
Ratios == { [num |-> 0 - 1, den |-> 2], [num |-> 0, den |-> 1],
            [num |-> 1, den |-> 3],     [num |-> 1, den |-> 2],
            [num |-> 1, den |-> 1],     [num |-> 3, den |-> 2] }

Dates == {"22-08-2025", "04-11-2026"}

OUTPUT_PATH == "outputs/samples/generated-whatsapp.csv"

PATIENTS_PATH == "outputs/samples/patients.json"

Paths == {OUTPUT_PATH, PATIENTS_PATH}

\* states the generator may be in when the interpreter starts (OS entropy)
EntropySeeds == {7, 1234}

(***************************************************************************)
(* Module-level pools (lines 12-45).                                       *)
(***************************************************************************)
VALID_PHONES ==
  << "081234567890", "085678901234", "082345678901", "083456789012",
     "087890123456" >>

UNIFORM_PHONES ==
  << "081234567890", "6285678901234", "082345678901", "0834-5678-9012",
     "85678901234" >>

INVALID_PHONES ==
  << "+630123456", "7123456789", "08123", "abcde12345", "", "620123456789" >>

VALID_NAMES ==
  << "DEWI LESTARI SARI", "MAYA SARI PUTRI", "RINA PERMATA ANGGRAINI",
     "LINDA MARLINA SIREGAR" >>

INVALID_NAMES ==
  << "INVALID FORMAT ONE", "INVALID FORMAT TWO", "INVALID FORMAT THREE",
     "INVALID FORMAT FOUR" >>

HEADER == << "last_updated_date", "nik_identifier", "name", "phone_number" >>

(***************************************************************************)
(* Integers and their decimal rendering.                                   *)
(***************************************************************************)
LIMB == 10000 * 10000

BASE_INVALID == [hi |-> 90000000, lo |-> 0]   \* 9_000_000_000_000_000

BASE_MIXED == [hi |-> 32000000, lo |-> 0]     \* 3_200_000_000_000_000

BASE_UNIFORM == [hi |-> 31000000, lo |-> 0]   \* 3_100_000_000_000_000

BASE_VALID == [hi |-> 33000000, lo |-> 0]     \* 3_300_000_000_000_000

BASE_PATIENT == [hi |-> 30000000, lo |-> 0]   \* 3_000_000_000_000_000

\* base + idx on limbs (idx >= 0)
BigAdd(b, i) ==
  [hi |-> b.hi + ((b.lo + i) \div LIMB), lo |-> (b.lo + i) % LIMB]

DigitChar(d) == << "0", "1", "2", "3", "4", "5", "6", "7", "8", "9" >>[d + 1]

RECURSIVE Dec(_)
\* str(n) for n >= 0
Dec(n) == IF n < 10 THEN DigitChar(n) ELSE Dec(n \div 10) \o DigitChar(n % 10)

\* str(n) for any int
IntStr(n) == IF n < 0 THEN "-" \o Dec(0 - n) ELSE Dec(n)

RECURSIVE ZeroPad(_, _)
\* left-pad with "0" up to width w; longer strings are left alone
ZeroPad(s, w) == IF Len(s) >= w THEN s ELSE ZeroPad("0" \o s, w)

\* str(b) for a two-limb natural
BigDec(b) == IF b.hi = 0 THEN Dec(b.lo) ELSE Dec(b.hi) \o ZeroPad(Dec(b.lo), 8)

\* make_nik that forgets the index
make_nik_dropidx(base, idx) == ZeroPad(BigDec(base), 16)

\* make_nik that offsets by a per-segment counter instead of the index
make_nik_wrap(base, idx) == ZeroPad(BigDec(BigAdd(base, idx % 4)), 16)

\* f"{base + idx:016d}"
make_nik(base, idx) == ZeroPad(BigDec(BigAdd(base, idx)), 16)

(***************************************************************************)
(* random: seed(), choice().                                               *)
(***************************************************************************)
\* the generator's output for a state: a function of seed and draw count
Mix(g) == ((g.seed % 97) + 3) * (g.n * g.n + 7 * g.n + 11)

RandBelow(g, n) == (Mix(g) \div 3) % n

Seeded(s) == [seed |-> s, n |-> 0]

\* random.choice(seq): the element picked and the generator afterwards
Choice(seq, g) ==
  [value |-> seq[RandBelow(g, Len(seq)) + 1], rng |-> [g EXCEPT !.n = @ + 1]]

(***************************************************************************)
(* build_rows (lines 72-107).                                              *)
(***************************************************************************)
\* int(math.floor(args.records * args.valid_ratio))
valid_target(a) == (a.records * a.valid_ratio.num) \div a.valid_ratio.den

\* invalid_row that keeps the NIK when the phone is empty
invalid_row_keepnik(a, i) ==
  LET nik_seed == make_nik(BASE_INVALID, i)
      phone == INVALID_PHONES[(i % Len(INVALID_PHONES)) + 1]
      name == INVALID_NAMES[(i % Len(INVALID_NAMES)) + 1]
  IN << a.date, nik_seed, name, phone >>

\* lines 79-83 and 92-96
invalid_row(a, i) ==
  LET nik_seed == make_nik(BASE_INVALID, i)
      phone == INVALID_PHONES[(i % Len(INVALID_PHONES)) + 1]
      nik_value == IF phone = "" THEN "" ELSE nik_seed
      name == INVALID_NAMES[(i % Len(INVALID_NAMES)) + 1]
  IN << a.date, nik_value, name, phone >>

\* lines 86-89
mixed_valid_row(a, i) ==
  LET nik == make_nik(BASE_MIXED, i)
      phone == VALID_PHONES[(i % Len(VALID_PHONES)) + 1]
      name == VALID_NAMES[(i % Len(VALID_NAMES)) + 1]
  IN << a.date, nik, name, phone >>

\* uniform_row that names the patient by the 0-based index
uniform_row_zero_based(a, i) ==
  LET nik == make_nik(BASE_UNIFORM, i)
      phone == UNIFORM_PHONES[(i % Len(UNIFORM_PHONES)) + 1]
      name == "PATIENT_" \o IntStr(i)
  IN << a.date, nik, name, phone >>

\* lines 98-101
uniform_row(a, i) ==
  LET nik == make_nik(BASE_UNIFORM, i)
      phone == UNIFORM_PHONES[(i % Len(UNIFORM_PHONES)) + 1]
      name == "PATIENT_" \o IntStr(i + 1)
  IN << a.date, nik, name, phone >>

\* lines 103-106: the row and the generator after its two draws
valid_row(a, i, g) ==
  LET nik == make_nik(BASE_VALID, i)
      p == Choice(VALID_PHONES, g)
      n == Choice(VALID_NAMES, p.rng)
  IN [row |-> << a.date, nik, n.value, p.value >>, rng |-> n.rng]

\* a loop that stops one record early
range_done_early(a, i) == i >= a.records - 1

\* range(args.records) is exhausted at i
range_done(a, i) == i >= a.records

\* the comparison of line 85 made inclusive
take_valid_inclusive(valid_count, a) == valid_count <= valid_target(a)

\* line 85
take_valid(valid_count, a) == valid_count < valid_target(a)

RECURSIVE build_loop(_, _, _, _, _)
build_loop(a, i, rws, valid_count, g) ==
  IF range_done(a, i) THEN [rows |-> rws, rng |-> g]
  ELSE IF a.mode = "invalid"
    THEN build_loop(a, i + 1, Append(rws, invalid_row(a, i)), valid_count, g)
  ELSE IF a.mode = "mixed"
    THEN IF take_valid(valid_count, a)
      THEN build_loop(a, i + 1, Append(rws, mixed_valid_row(a, i)),
                      valid_count + 1, g)
      ELSE build_loop(a, i + 1, Append(rws, invalid_row(a, i)),
                      valid_count, g)
  ELSE IF a.mode = "uniform"
    THEN build_loop(a, i + 1, Append(rws, uniform_row(a, i)), valid_count, g)
  ELSE LET v == valid_row(a, i, g)
       IN build_loop(a, i + 1, Append(rws, v.row), valid_count, v.rng)

build_rows(a, g) == build_loop(a, 0, << HEADER >>, 0, g)

(***************************************************************************)
(* Files.  A file is absent, a CSV text (its lines, each ending in "\n"),  *)
(* a complete JSON document (the dumped object, as the sequence of its     *)
(* <<key, value>> members) or a truncated JSON text.                       *)
(***************************************************************************)
Absent == [kind |-> "absent", lines |-> << >>, doc |-> << >>]

CsvFile(ls) == [kind |-> "csv", lines |-> ls, doc |-> << >>]

JsonFile(d) == [kind |-> "json", lines |-> << >>, doc |-> d]

TruncatedJson == [kind |-> "truncated", lines |-> << >>, doc |-> << >>]

RECURSIVE Join(_, _)
\* sep.join(fields)
Join(fields, sep) ==
  IF Len(fields) = 0 THEN ""
  ELSE IF Len(fields) = 1 THEN fields[1]
  ELSE fields[1] \o sep \o Join(Tail(fields), sep)

\* line 114: ",".join(row) + "\n"
csv_line(row) == Join(row, ",") \o "\n"

csv_lines(rws) == [k \in 1 .. Len(rws) |-> csv_line(rws[k])]

\* patient_entry that numbers the ids from 0
patient_entry_zero_based(i) ==
  [resource |->
    [resourceType |-> "Patient",
     id |-> "patient-" \o IntStr(i),
     active |-> TRUE,
     identifier |-> << [system |-> "https://fhir.kemkes.go.id/id/nik",
                        value |-> make_nik(BASE_PATIENT, i)] >>,
     name |-> << [use |-> "official",
                  family |-> "PATIENT_" \o IntStr(i),
                  given |-> << "TEST" >>] >>,
     telecom |-> << >>,
     meta |-> [versionId |-> "v001",
               lastUpdated |-> "2025-08-22T10:15:30.123456+07:00"]]]

\* lines 121-148: the wrapper appended for index i
patient_entry(i) ==
  [resource |->
    [resourceType |-> "Patient",
     id |-> "patient-" \o IntStr(i + 1),
     active |-> TRUE,
     identifier |-> << [system |-> "https://fhir.kemkes.go.id/id/nik",
                        value |-> make_nik(BASE_PATIENT, i)] >>,
     name |-> << [use |-> "official",
                  family |-> "PATIENT_" \o IntStr(i + 1),
                  given |-> << "TEST" >>] >>,
     telecom |-> << >>,
     meta |-> [versionId |-> "v001",
               lastUpdated |-> "2025-08-22T10:15:30.123456+07:00"]]]

RECURSIVE patients_loop(_, _, _)
\* lines 120-148: for i in range(records): ...append(...)
patients_loop(records, i, acc) ==
  IF i >= records THEN acc
  ELSE patients_loop(records, i + 1, Append(acc, patient_entry(i)))

\* lines 119-148: the object handed to json.dump
patients_bundle(records) ==
  << << "patients_before_phone_update", patients_loop(records, 0, << >>) >> >>

(***************************************************************************)
(* The process: __main__ (lines 164-166) and main (lines 153-161).         *)
(***************************************************************************)
NoArgs ==
  [output |-> "", records |-> 0, mode |-> "", valid_ratio |-> [num |-> 0, den |-> 1],
   patients_json |-> "", date |-> ""]

ArgSpace ==
  [output : {OUTPUT_PATH}, records : RecordCounts, mode : Modes,
   valid_ratio : Ratios, patients_json : {"", PATIENTS_PATH}, date : Dates]

NoPrev == [set |-> FALSE, args |-> NoArgs, rows |-> << >>]

Init ==
  /\ pc = "start"
  /\ argv \in ArgSpace
  /\ args = NoArgs
  /\ rng \in {Seeded(s) : s \in EntropySeeds}
  /\ rows = << >>
  /\ fs = [p \in Paths |-> Absent]
  /\ stdout = << >>
  /\ trace = << >>
  /\ prev = NoPrev

\* a start-up that leaves the generator as the interpreter seeded it
Seed_missing ==
  /\ pc = "start"
  /\ pc' = "seeded"
  /\ UNCHANGED <<argv, args, rng, rows, fs, stdout, trace, prev>>

\* line 165: random.seed(42)
Seed ==
  /\ pc = "start"
  /\ rng' = Seeded(42)
  /\ pc' = "seeded"
  /\ UNCHANGED <<argv, args, rows, fs, stdout, trace, prev>>

\* line 154: args = parse_args()
ParseArgs ==
  /\ pc = "seeded"
  /\ args' = argv
  /\ pc' = "parsed"
  /\ UNCHANGED <<argv, rng, rows, fs, stdout, trace, prev>>

\* line 155: rows = build_rows(args)
BuildRows ==
  /\ pc = "parsed"
  /\ LET r == build_rows(args, rng)
     IN /\ rows' = r.rows
        /\ rng' = r.rng
  /\ trace' = Append(trace, "build_rows")
  /\ pc' = "built"
  /\ UNCHANGED <<argv, args, fs, stdout, prev>>

\* line 156, write_csv returns normally
WriteCsvOk ==
  /\ fs' = [fs EXCEPT ![args.output] = CsvFile(csv_lines(rows))]
  /\ trace' = Append(trace, "write_csv")
  /\ pc' = "csv_written"

\* line 156, ensure_dir or open raises: nothing was written
WriteCsvRefused ==
  /\ fs' = fs
  /\ trace' = trace
  /\ pc' = "aborted"

\* line 156, a write raises after open truncated the file: k lines reached it
WriteCsvBroken ==
  /\ \E k \in 0 .. (Len(rows) - 1) :
       fs' = [fs EXCEPT ![args.output] = CsvFile(SubSeq(csv_lines(rows), 1, k))]
  /\ trace' = trace
  /\ pc' = "aborted"

WriteCsv ==
  /\ pc = "built"
  /\ \/ WriteCsvOk
     \/ WriteCsvRefused
     \/ WriteCsvBroken
  /\ UNCHANGED <<argv, args, rng, rows, stdout, prev>>

\* line 157
ConfirmCsv ==
  /\ pc = "csv_written"
  /\ stdout' = Append(stdout,
       "[ok] CSV written to " \o args.output \o " (" \o IntStr(args.records)
         \o " rows, mode=" \o args.mode \o ")")
  /\ trace' = Append(trace, "print_csv")
  /\ pc' = "csv_confirmed"
  /\ UNCHANGED <<argv, args, rng, rows, fs, prev>>

\* a main that writes the bundle without testing the path
SkipPatients_unguarded ==
  /\ pc = "csv_confirmed"
  /\ args.patients_json = ""
  /\ fs' = [fs EXCEPT ![PATIENTS_PATH] = [kind |-> "json", lines |-> << >>,
                                          doc |-> << >>]]
  /\ trace' = Append(trace, "write_patients_json")
  /\ pc' = "json_written"
  /\ UNCHANGED <<argv, args, rng, rows, stdout, prev>>

\* line 159, the empty path is falsy: main returns
SkipPatients ==
  /\ pc = "csv_confirmed"
  /\ args.patients_json = ""
  /\ pc' = "done"
  /\ UNCHANGED <<argv, args, rng, rows, fs, stdout, trace, prev>>

\* line 160, write_patients_json returns normally
WritePatientsOk ==
  /\ fs' = [fs EXCEPT ![args.patients_json] =
              JsonFile(patients_bundle(args.records))]
  /\ trace' = Append(trace, "write_patients_json")
  /\ pc' = "json_written"

\* a failure path that removes the CSV written before
WritePatientsRefused_cleanup ==
  /\ fs' = [fs EXCEPT ![args.output] = [kind |-> "absent", lines |-> << >>,
                                        doc |-> << >>]]
  /\ trace' = trace
  /\ pc' = "aborted"

\* line 160, ensure_dir or open raises
WritePatientsRefused ==
  /\ fs' = fs
  /\ trace' = trace
  /\ pc' = "aborted"

\* line 160, json.dump raises after open truncated the file
WritePatientsBroken ==
  /\ fs' = [fs EXCEPT ![args.patients_json] = TruncatedJson]
  /\ trace' = trace
  /\ pc' = "aborted"

WritePatientsJson ==
  /\ pc = "csv_confirmed"
  /\ args.patients_json # ""
  /\ \/ WritePatientsOk
     \/ WritePatientsRefused
     \/ WritePatientsBroken
  /\ UNCHANGED <<argv, args, rng, rows, stdout, prev>>

\* line 161
ConfirmPatients ==
  /\ pc = "json_written"
  /\ stdout' = Append(stdout, "[ok] Patients JSON written to " \o args.patients_json)
  /\ trace' = Append(trace, "print_patients")
  /\ pc' = "done"
  /\ UNCHANGED <<argv, args, rng, rows, fs, prev>>

\* the script is launched again (once) with the same flags (the date may
\* differ); the files of the earlier run stay on disk and prev remembers
\* what that run parsed and built
Rerun ==
  /\ pc \in {"done", "aborted"}
  /\ ~prev.set
  /\ prev' = [set |-> TRUE, args |-> args, rows |-> rows]
  /\ \E d \in Dates : argv' = [argv EXCEPT !.date = d]
  /\ rng' \in {Seeded(s) : s \in EntropySeeds}
  /\ args' = NoArgs
  /\ rows' = << >>
  /\ stdout' = << >>
  /\ trace' = << >>
  /\ pc' = "start"
  /\ UNCHANGED fs

Next ==
  \/ Seed
  \/ ParseArgs
  \/ BuildRows
  \/ WriteCsv
  \/ ConfirmCsv
  \/ SkipPatients
  \/ WritePatientsJson
  \/ ConfirmPatients

Spec == Init /\ [][Next]_vars

NextRuns == Next \/ Rerun

SpecRuns == Init /\ [][NextRuns]_vars

(***************************************************************************)
(* Vocabulary of the properties.                                           *)
(***************************************************************************)
InTrace(e) == \E k \in 1 .. Len(trace) : trace[k] = e

Built == InTrace("build_rows")

Terminated == pc \in {"done", "aborted"}

Max0(n) == IF n > 0 THEN n ELSE 0

Min(a, b) == IF a < b THEN a ELSE b

\* 0-based indices of the data rows
DataIdx == 0 .. (Len(rows) - 2)

\* the data row at 0-based index i
DataRow(i) == rows[i + 2]

ValidPool == {VALID_PHONES[k] : k \in 1 .. Len(VALID_PHONES)}

InvalidPool == {INVALID_PHONES[k] : k \in 1 .. Len(INVALID_PHONES)}

ValidPhoneCount == Cardinality({i \in DataIdx : DataRow(i)[4] \in ValidPool})

\* floor(n * r) by its defining inequality
FloorOf(n, r) ==
  CHOOSE q \in (0 - 3 * (MaxRecords + 2)) .. (3 * (MaxRecords + 2)) :
    q * r.den <= n * r.num /\ n * r.num < (q + 1) * r.den

Digits == {"0", "1", "2", "3", "4", "5", "6", "7", "8", "9"}

IsDigits(s) == \A k \in 1 .. Len(s) : SubSeq(s, k, k) \in Digits

RECURSIVE DigitsValue(_)
\* the number a string of at most eight digits denotes
DigitsValue(s) ==
  IF Len(s) = 0 THEN 0
  ELSE 10 * DigitsValue(SubSeq(s, 1, Len(s) - 1))
         + (CHOOSE d \in 0 .. 9 : ToString(d) = SubSeq(s, Len(s), Len(s)))

\* s is exactly 16 decimal digits and denotes base + i
IsNikOf(s, base, i) ==
  /\ Len(s) = 16
  /\ IsDigits(s)
  /\ DigitsValue(SubSeq(s, 1, 8)) = base.hi
  /\ DigitsValue(SubSeq(s, 9, 16)) = base.lo + i

\* the NIK base of the branch that produced data row i
BranchBase(i) ==
  IF args.mode = "invalid" THEN BASE_INVALID
  ELSE IF args.mode = "uniform" THEN BASE_UNIFORM
  ELSE IF args.mode = "valid" THEN BASE_VALID
  ELSE IF DataRow(i)[4] \in ValidPool THEN BASE_MIXED ELSE BASE_INVALID

BundleWritten == fs[PATIENTS_PATH].kind = "json"

\* the list under "patients_before_phone_update" of the written bundle
BundleList == fs[PATIENTS_PATH].doc[1][2]

FilesWritten ==
  Cardinality({k \in 1 .. Len(trace) :
                 trace[k] \in {"write_csv", "write_patients_json"}})

IsPrefix(s, t) == Len(s) <= Len(t) /\ \A k \in 1 .. Len(s) : s[k] = t[k]

(***************************************************************************)
(* Row builder.                                                            *)
(***************************************************************************)
\* C1 as stated: in every mode and for every configured record count the
\* rows are the header followed by exactly `records` data rows.
C1_RowCountIsRecords ==
  Built => /\ rows[1] = HEADER
           /\ Len(rows) - 1 = args.records

\* C1, amended: in every mode the rows are the header followed by
\* max(records, 0) data rows (that is `records` rows whenever records >= 0;
\* a negative count yields the header alone).
C1_RowCountIsClampedRecords ==
  Built => /\ rows[1] = HEADER
           /\ Len(rows) - 1 = Max0(args.records)

C1_Witness ==
  /\ Built
  /\ args.records = 5
  /\ Len(rows) = 6
  /\ rows[1] = HEADER

\* C2 as stated: in mixed mode exactly floor(records * valid_ratio) data rows
\* carry a valid-pool phone, for every record count and every ratio, and they
\* all precede every invalid-shaped row.
C2_ValidCountIsFloor ==
  (Built /\ args.mode = "mixed") =>
    /\ ValidPhoneCount = FloorOf(args.records, args.valid_ratio)
    /\ \A i \in DataIdx : \A j \in DataIdx :
         (DataRow(i)[4] \in ValidPool /\ DataRow(j)[4] \notin ValidPool) => i < j

\* C2, amended: in mixed mode the number of data rows with a valid-pool phone
\* is floor(records * valid_ratio) clamped to the range 0 .. max(records, 0)
\* (so exactly the floor whenever records >= 0 and 0 <= valid_ratio <= 1);
\* these rows are the first ones, every other row is invalid-shaped.
C2_ValidCountIsClampedFloor ==
  (Built /\ args.mode = "mixed") =>
    /\ ValidPhoneCount =
         Min(Max0(args.records), Max0(FloorOf(args.records, args.valid_ratio)))
    /\ \A i \in DataIdx :
         /\ (i < ValidPhoneCount) => DataRow(i)[4] \in ValidPool
         /\ (i >= ValidPhoneCount) => DataRow(i)[4] \in InvalidPool
    /\ \A i \in DataIdx : \A j \in DataIdx :
         (DataRow(i)[4] \in ValidPool /\ DataRow(j)[4] \notin ValidPool) => i < j

C2_Witness ==
  /\ Built
  /\ args.mode = "mixed"
  /\ args.records = 7
  /\ args.valid_ratio = [num |-> 1, den |-> 2]
  /\ ValidPhoneCount = 3
  /\ DataRow(2)[4] \in ValidPool
  /\ DataRow(3)[4] \in InvalidPool

\* C3: in invalid mode data row i has phone INVALID_PHONES[i mod 6] and name
\* INVALID_NAMES[i mod 4], so every phone is in the invalid pool, and a row's
\* NIK is empty exactly when its phone is empty.
C3_InvalidModeRows ==
  (Built /\ args.mode = "invalid") =>
    \A i \in DataIdx :
      /\ DataRow(i)[4] = INVALID_PHONES[(i % 6) + 1]
      /\ DataRow(i)[3] = INVALID_NAMES[(i % 4) + 1]
      /\ DataRow(i)[4] \in InvalidPool
      /\ (DataRow(i)[2] = "") <=> (DataRow(i)[4] = "")

C3_Witness ==
  /\ Built
  /\ args.mode = "invalid"
  /\ Len(rows) = 8
  /\ DataRow(4)[4] = ""
  /\ DataRow(4)[2] = ""
  /\ DataRow(6)[4] = "+630123456"
  /\ DataRow(6)[2] # ""

\* C4 as stated: every NIK field of every data row in every mode, and every
\* identifier of a written bundle, is exactly 16 decimal digits denoting
\* base + index.
C4_EveryNikIs16Digits ==
  /\ Built => \A i \in DataIdx : IsNikOf(DataRow(i)[2], BranchBase(i), i)
  /\ BundleWritten =>
       \A k \in 1 .. Len(BundleList) :
         IsNikOf(BundleList[k].resource.identifier[1].value, BASE_PATIENT, k - 1)

\* C4, amended: every non-empty NIK field of a data row, and every identifier
\* of a written bundle, is exactly 16 decimal digits denoting base + index;
\* the NIK field is empty only in an invalid-shaped row whose phone is empty.
C4_NonEmptyNikIs16Digits ==
  /\ Built =>
       \A i \in DataIdx :
         IF DataRow(i)[2] = ""
           THEN DataRow(i)[4] = "" /\ args.mode \in {"invalid", "mixed"}
           ELSE IsNikOf(DataRow(i)[2], BranchBase(i), i)
  /\ BundleWritten =>
       \A k \in 1 .. Len(BundleList) :
         IsNikOf(BundleList[k].resource.identifier[1].value, BASE_PATIENT, k - 1)

C4_Witness ==
  /\ Built
  /\ args.mode = "mixed"
  /\ Len(rows) = 7
  /\ DataRow(0)[2] = "3200000000000000"
  /\ DataRow(4)[2] = ""
  /\ DataRow(5)[2] = "9000000000000005"
  /\ BundleWritten
  /\ BundleList[6].resource.identifier[1].value = "3000000000000005"

\* C5: in uniform mode data row i has phone UNIFORM_PHONES[i mod 5], name
\* PATIENT_<i+1> and NIK zero-pad(3_100_000_000_000_000 + i, 16); records=5
\* gives the five pool phones in pool order.
C5_UniformModeRows ==
  (Built /\ args.mode = "uniform") =>
    /\ \A i \in DataIdx :
         /\ DataRow(i)[4] = UNIFORM_PHONES[(i % 5) + 1]
         /\ DataRow(i)[3] = "PATIENT_" \o ToString(i + 1)
         /\ IsNikOf(DataRow(i)[2], BASE_UNIFORM, i)
    /\ args.records = 5 =>
         [i \in 1 .. 5 |-> rows[i + 1][4]] =
           << "081234567890", "6285678901234", "082345678901",
              "0834-5678-9012", "85678901234" >>

C5_Witness ==
  /\ Built
  /\ args.mode = "uniform"
  /\ Len(rows) = 8
  /\ DataRow(4) = << args.date, "3100000000000004", "PATIENT_5", "85678901234" >>
  /\ DataRow(5) = << args.date, "3100000000000005", "PATIENT_6", "081234567890" >>

(***************************************************************************)
(* Patient bundle.                                                         *)
(***************************************************************************)
\* what C6 says of the entry at 0-based index i
EntryAsSpecified(e, i) ==
  /\ e.resource.id = "patient-" \o ToString(i + 1)
  /\ Len(e.resource.identifier) = 1
  /\ IsNikOf(e.resource.identifier[1].value, BASE_PATIENT, i)
  /\ e.resource.telecom = << >>
  /\ e.resource.meta = [versionId |-> "v001",
                        lastUpdated |-> "2025-08-22T10:15:30.123456+07:00"]

BundleEntriesAsSpecified ==
  /\ fs[PATIENTS_PATH].doc[1][1] = "patients_before_phone_update"
  /\ \A k \in 1 .. Len(BundleList) : EntryAsSpecified(BundleList[k], k - 1)
  /\ \A j \in 1 .. Len(BundleList) : \A k \in 1 .. Len(BundleList) :
       (j # k) => BundleList[j].resource.id # BundleList[k].resource.id
  /\ \A j \in 1 .. Len(BundleList) : \A k \in 1 .. Len(BundleList) :
       BundleList[j].resource.meta = BundleList[k].resource.meta

\* C6 as stated: the written bundle lists exactly `records` entries, entry i
\* having id patient-<i+1>, identifier zero-pad(3_000_000_000_000_000 + i, 16),
\* an empty telecom list and the constant meta block.
C6_BundleHasRecordsEntries ==
  BundleWritten =>
    /\ Len(BundleList) = args.records
    /\ BundleEntriesAsSpecified

\* C6, amended: the written bundle lists exactly max(records, 0) entries
\* (`records` entries whenever records >= 0), in index order, entry i having
\* id patient-<i+1> (ids pairwise distinct), identifier
\* zero-pad(3_000_000_000_000_000 + i, 16), an empty telecom list and the same
\* constant meta block.
C6_BundleHasClampedRecordsEntries ==
  BundleWritten =>
    /\ Len(BundleList) = Max0(args.records)
    /\ BundleEntriesAsSpecified

C6_Witness ==
  /\ BundleWritten
  /\ args.records = 3
  /\ Len(BundleList) = 3
  /\ BundleList[3].resource.id = "patient-3"
  /\ BundleList[3].resource.identifier[1].value = "3000000000000002"

(***************************************************************************)
(* Entry point.                                                            *)
(***************************************************************************)
FullOrder ==
  << "build_rows", "write_csv", "print_csv", "write_patients_json",
     "print_patients" >>

StepsInOrder ==
  /\ IsPrefix(trace, FullOrder)
  /\ InTrace("write_patients_json") => args.patients_json # ""
  /\ (Built /\ args.patients_json = "") => fs[PATIENTS_PATH] = Absent

\* C7 as stated: the steps of main happen in the order build rows, write CSV,
\* confirm CSV, then (only for a non-empty patients path) write bundle,
\* confirm bundle; and at all times the number of confirmation lines equals
\* the number of files fully written.
C7_ConfirmationsAlwaysEqualFiles ==
  /\ StepsInOrder
  /\ Len(stdout) = FilesWritten

\* C7, amended: same order of steps; the number of confirmation lines never
\* exceeds the number of files fully written and is at most one behind it
\* (between a write returning and its confirmation), and the two are equal
\* whenever the run has ended, normally or by a failed write.
C7_ConfirmationsEqualFilesAtEnd ==
  /\ StepsInOrder
  /\ Len(stdout) <= FilesWritten
  /\ FilesWritten <= Len(stdout) + 1
  /\ Terminated => Len(stdout) = FilesWritten
  /\ (pc = "done" /\ args.patients_json = "") => trace = SubSeq(FullOrder, 1, 3)
  /\ (pc = "done" /\ args.patients_json # "") => trace = FullOrder

C7_Witness ==
  /\ pc = "done"
  /\ args.patients_json # ""
  /\ trace = FullOrder
  /\ Len(stdout) = 2
  /\ FilesWritten = 2

CsvComplete == fs[OUTPUT_PATH] = CsvFile([k \in 1 .. Len(rows) |-> Join(rows[k], ",") \o "\n"])

CsvPartial ==
  \/ fs[OUTPUT_PATH] = Absent
  \/ /\ fs[OUTPUT_PATH].kind = "csv"
     /\ Len(fs[OUTPUT_PATH].lines) < Len(rows)
     /\ \A k \in 1 .. Len(fs[OUTPUT_PATH].lines) :
          fs[OUTPUT_PATH].lines[k] = Join(rows[k], ",") \o "\n"

\* C8: when both files are requested, a run ends either with both files fully
\* written, or aborted on a failed write with the output left as it was at
\* that moment: a CSV completed before a failing bundle write stays on disk,
\* and after a failing CSV write the bundle write is never attempted.
C8_BothWrittenOrAbortedInPlace ==
  (Terminated /\ args.patients_json # "") =>
    \/ /\ pc = "done"
       /\ CsvComplete
       /\ BundleWritten
       /\ Len(BundleList) = Max0(args.records)
    \/ /\ pc = "aborted"
       /\ ~InTrace("write_csv")
       /\ CsvPartial
       /\ ~InTrace("write_patients_json")
       /\ fs[PATIENTS_PATH] = Absent
    \/ /\ pc = "aborted"
       /\ InTrace("write_csv")
       /\ CsvComplete
       /\ ~InTrace("write_patients_json")
       /\ fs[PATIENTS_PATH] \in {Absent, TruncatedJson}

C8_Witness ==
  /\ pc = "aborted"
  /\ args.patients_json # ""
  /\ args.records = 2
  /\ InTrace("print_csv")
  /\ CsvComplete
  /\ fs[PATIENTS_PATH] = TruncatedJson

(***************************************************************************)
(* Reproducibility and uniqueness.                                         *)
(***************************************************************************)
\* C9: two runs in valid mode with the same configuration build identical
\* rows; with the generator seeded with 42 at startup, row i takes its phone
\* from draw 2i and its name from draw 2i+1 of that seed, and build_rows
\* leaves the generator exactly two draws per record after the seeding.
C9_ValidModeReproducible ==
  (Built /\ args.mode = "valid") =>
    /\ (prev.set /\ prev.args = args) => rows = prev.rows
    /\ rng = [seed |-> 42, n |-> 2 * Max0(args.records)]
    /\ \A i \in DataIdx :
         /\ DataRow(i)[4] =
              VALID_PHONES[RandBelow([seed |-> 42, n |-> 2 * i], 5) + 1]
         /\ DataRow(i)[3] =
              VALID_NAMES[RandBelow([seed |-> 42, n |-> 2 * i + 1], 4) + 1]

C9_Witness ==
  /\ prev.set
  /\ Built
  /\ args.mode = "valid"
  /\ args.records = 5
  /\ prev.args = args
  /\ Len(prev.rows) = 6
  /\ rows = prev.rows

\* C10: in every mode any two distinct data rows with non-empty NIK have
\* different NIKs (in mixed mode too, where both bases are offset by the
\* global row index), and the NIKs of a written bundle are pairwise distinct.
C10_NiksPairwiseDistinct ==
  /\ Built =>
       \A i \in DataIdx : \A j \in DataIdx :
         (i # j /\ DataRow(i)[2] # "" /\ DataRow(j)[2] # "")
           => DataRow(i)[2] # DataRow(j)[2]
  /\ BundleWritten =>
       \A j \in 1 .. Len(BundleList) : \A k \in 1 .. Len(BundleList) :
         (j # k) => BundleList[j].resource.identifier[1].value
                      # BundleList[k].resource.identifier[1].value

C10_Witness ==
  /\ Built
  /\ args.mode = "mixed"
  /\ args.records = 7
  /\ ValidPhoneCount = 2
  /\ DataRow(1)[2] = "3200000000000001"
  /\ DataRow(2)[2] = "9000000000000002"
  /\ BundleWritten
  /\ Len(BundleList) = 7

====
